---- MODULE Spec2Model ----
(***************************************************************************)
(* simple-finance: the CRSP query batcher (pipelines/crsp.py) and the      *)
(* monthly table normalizers (pipelines/alpha_vantage.py,                  *)
(* pipelines/dartmouth.py).                                                *)
(*                                                                         *)
(* Strings are sequences of one-character strings, so that strip(),        *)
(* upper(), isdigit(), int() and str() are computed and not assumed.       *)
(* Calendar dates are integers yyyymmdd, months read from the archive are  *)
(* integers yyyymm, textual 'YYYY-MM' arguments are pairs <<yyyy, mm>>,    *)
(* and a pandas monthly Period is its ordinal yyyy * 12 + mm - 1.          *)
(***************************************************************************)
EXTENDS Integers, Sequences, FiniteSets, TLC

\* ------------------------------------------------------------------ bounds
MaxIds == 3
MaxChunk == 2
MaxLines == 4
MaxAssets == 2

\* ----------------------------------------------------------- Python strings
SUP2 == "sup2"   \* U+00B2 SUPERSCRIPT TWO: str.isdigit() is True, int() rejects it

DecimalDigits == {"0", "1", "2", "3", "4", "5", "6", "7", "8", "9"}

DigitVal(c) ==
    CASE c = "0" -> 0 [] c = "1" -> 1 [] c = "2" -> 2 [] c = "3" -> 3
      [] c = "4" -> 4 [] c = "5" -> 5 [] c = "6" -> 6 [] c = "7" -> 7
      [] c = "8" -> 8 [] c = "9" -> 9

DigitChar(d) ==
    CASE d = 0 -> "0" [] d = 1 -> "1" [] d = 2 -> "2" [] d = 3 -> "3"
      [] d = 4 -> "4" [] d = 5 -> "5" [] d = 6 -> "6" [] d = 7 -> "7"
      [] d = 8 -> "8" [] d = 9 -> "9"

IsSpace(c) == c = " "

RECURSIVE LStrip(_)
LStrip(s) ==
    IF s # <<>> /\ IsSpace(Head(s)) THEN LStrip(Tail(s)) ELSE s

RECURSIVE RStrip(_)
RStrip(s) ==
    IF s # <<>> /\ IsSpace(s[Len(s)]) THEN RStrip(SubSeq(s, 1, Len(s) - 1)) ELSE s

\* str.strip()
Strip(s) == RStrip(LStrip(s))

UpperChar(c) ==
    CASE c = "a" -> "A" [] c = "b" -> "B" [] c = "c" -> "C" [] OTHER -> c

\* str.upper()
Upper(s) == [k \in 1..Len(s) |-> UpperChar(s[k])]

\* str.isdigit(): non-empty and every character is a Unicode digit
IsDigit(s) == s # <<>> /\ \A k \in 1..Len(s) : s[k] \in DecimalDigits \cup {SUP2}

\* int(str) succeeds on optional surrounding whitespace around decimal digits
IntParses(s) ==
    Strip(s) # <<>> /\ \A k \in 1..Len(Strip(s)) : Strip(s)[k] \in DecimalDigits

RECURSIVE DigitsValue(_)
DigitsValue(s) ==
    IF s = <<>> THEN 0
    ELSE 10 * DigitsValue(SubSeq(s, 1, Len(s) - 1)) + DigitVal(s[Len(s)])

RECURSIVE StrOfNat(_)
StrOfNat(n) ==
    IF n < 10 THEN <<DigitChar(n)>>
    ELSE StrOfNat(n \div 10) \o <<DigitChar(n % 10)>>

\* ------------------------------------------------------- identifier values
\* A Python value handed in as an identifier: an int, a str, or another
\* object (a float) of which only str(x) is ever used.
PyInt(n) == [t |-> "int", v |-> n, s |-> <<>>]
PyStr(s) == [t |-> "str", v |-> 0, s |-> s]
PyFloat(repr) == [t |-> "float", v |-> 0, s |-> repr]

IdPool ==
    { PyInt(10),
      PyStr(<<" ", "2">>),
      PyStr(<<"a", "b">>),
      PyStr(<<"C", " ">>),
      PyStr(<<"a", "'">>),
      PyStr(<<"\"">>),
      PyStr(<<SUP2>>),
      PyStr(<<>>),
      PyFloat(<<"1", ".", "5">>) }

\* str(x)
StrOf(x) == IF x.t = "int" THEN StrOfNat(x.v) ELSE x.s

\* int(x)
IntCastable(x) == x.t = "int" \/ (x.t = "str" /\ IntParses(x.s))
IntOf(x) == IF x.t = "int" THEN x.v ELSE DigitsValue(Strip(x.s))

\* a digit test on the untrimmed string
is_numeric_like_unstripped(x) ==
    IF x.t = "int" THEN TRUE
    ELSE IF x.t = "str" THEN IsDigit(x.s)
    ELSE FALSE

is_numeric_like(x) ==
    IF x.t = "int" THEN TRUE
    ELSE IF x.t = "str" THEN IsDigit(Strip(x.s))
    ELSE FALSE

\* a check that forgets the double quote
HasSingleQuote(t) == \E k \in 1..Len(t) : t[k] = "'"

\* "'" in t or '"' in t
HasQuote(t) == \E k \in 1..Len(t) : t[k] = "'" \/ t[k] = "\""

\* ------------------------------------------------------------------- dates
\* 'YYYY-MM' text as <<yyyy, mm>>; <<>> is text that is no date at all, and
\* for the normalizers' optional bounds <<>> is None.
NoDate == <<>>
NoPeriod == -1

\* a parse that takes any two fields for a year and a month
PeriodParsesLoose(d) == Len(d) = 2

PeriodParses(d) == Len(d) = 2 /\ d[2] \in 1..12

\* pd.Period(text, freq="M")
PeriodOf(d) == d[1] * 12 + d[2] - 1

PeriodYear(p) == p \div 12
PeriodMonth(p) == (p % 12) + 1

DaysInMonth(y, m) ==
    IF m = 2 THEN (IF y % 4 = 0 /\ (y % 100 # 0 \/ y % 400 = 0) THEN 29 ELSE 28)
    ELSE IF m \in {4, 6, 9, 11} THEN 30 ELSE 31

\* Period.to_timestamp(how="start"/"end"), printed as %Y-%m-%d
StartDay(p) == PeriodYear(p) * 10000 + PeriodMonth(p) * 100 + 1
EndDay(p) ==
    PeriodYear(p) * 10000 + PeriodMonth(p) * 100
        + DaysInMonth(PeriodYear(p), PeriodMonth(p))

\* pd.to_datetime(date).dt.to_period("M") of a calendar date yyyymmdd
PeriodOfDay(d) == (d \div 10000) * 12 + ((d \div 100) % 100) - 1

\* the monthly period of an archive month yyyymm
PeriodOfYM(d) == (d \div 100) * 12 + (d % 100) - 1


\* ---------------------------------------------------------- generic helpers
Min(a, b) == IF a < b THEN a ELSE b

SeqsUpTo(S, n) == UNION {[1..k -> S] : k \in 0..n}

\* ------------------------------------------------- the relational source
\* crspm.msf joined to crspm.msenames on permno, restricted to the name's
\* validity window (base_sql without the date and identifier filters).
\* The source returns rows in its own order, which is no particular order.
MsfTables ==
    { << [permno |-> 10, ticker |-> <<"A", "B">>, date |-> 20200228],
         [permno |-> 2,  ticker |-> <<"C">>,      date |-> 20200131],
         [permno |-> 10, ticker |-> <<"A", "B">>, date |-> 20200115],
         [permno |-> 2,  ticker |-> <<"C">>,      date |-> 20191231],
         [permno |-> 10, ticker |-> <<"1", "0">>, date |-> 20200131] >>,
      << [permno |-> 2,  ticker |-> <<"A", "B">>, date |-> 20200131],
         [permno |-> 10, ticker |-> <<"C">>,      date |-> 20200115],
         [permno |-> 2,  ticker |-> <<"A", "B">>, date |-> 20200131],
         [permno |-> 2,  ticker |-> <<"A", "B">>, date |-> 20200110] >> }

\* the IN (...) list of one chunk
InList(row, col, sub) ==
    IF col = "permno"
    THEN \E k \in 1..Len(sub) : sub[k].t = "int" /\ sub[k].v = row.permno
    ELSE \E k \in 1..Len(sub) : sub[k].t = "str" /\ sub[k].s = row.ticker

\* pd.read_sql_query(base_sql + where_ids, con), when it succeeds
read_sql_query(table, col, sub, lo, hi) ==
    SelectSeq(table,
              LAMBDA r : r.date >= StartDay(lo) /\ r.date <= EndDay(hi)
                         /\ InList(r, col, sub))

\* ------------------------------------------------------ get_crsp_msf_by_ids
\* a loop that steps one position too far
NextOffsetSkip(i, n) == i + n + 1

\* range(0, len(seq), n): the offset after i
NextOffset(i, n) == i + n

\* a slice that runs one element into the next chunk
ChunkSliceOverlap(seq, i, n) == SubSeq(seq, i + 1, Min(i + n + 1, Len(seq)))

\* seq[i:i+n]
ChunkSlice(seq, i, n) == SubSeq(seq, i + 1, Min(i + n, Len(seq)))

\* [int(x) for x in ids_list]
CastAllInt(ids) == [k \in 1..Len(ids) |-> PyInt(IntOf(ids[k]))]

\* [str(x).strip().upper() for x in ids_list]
UpperStripAll(ids) == [k \in 1..Len(ids) |-> PyStr(Upper(Strip(StrOf(ids[k]))))]

all_numeric_like(ids) == \A k \in 1..Len(ids) : is_numeric_like(ids[k])

AnyQuoted(ids) == \E k \in 1..Len(ids) : HasQuote(ids[k].s)

\* an emptiness check that never fires
NeverEmptyList(ids) == FALSE

\* not ids_list
IsEmptyList(ids) == ids = <<>>

\* pd.concat(dfs, ignore_index=True)
RECURSIVE Concat(_)
Concat(dfs) == IF dfs = <<>> THEN <<>> ELSE Head(dfs) \o Concat(Tail(dfs))

\* a sort on the date alone
SortKeyDateOnly(a, b) == a.date <= b.date

\* the sort key of out.sort_values(["permno", "date"])
SortKeyLeq(a, b) ==
    a.permno < b.permno \/ (a.permno = b.permno /\ a.date <= b.date)

RECURSIVE InsertSorted(_, _)
InsertSorted(r, sorted) ==
    IF sorted = <<>> THEN <<r>>
    ELSE IF SortKeyLeq(sorted[Len(sorted)], r) THEN Append(sorted, r)
    ELSE Append(InsertSorted(r, SubSeq(sorted, 1, Len(sorted) - 1)),
                sorted[Len(sorted)])

\* a stable sort, as pandas sorts on several columns
RECURSIVE sort_values(_)
sort_values(rows) ==
    IF rows = <<>> THEN <<>>
    ELSE InsertSorted(rows[Len(rows)], sort_values(SubSeq(rows, 1, Len(rows) - 1)))

\* out['date'].dt.to_period("M")
ToPeriodRows(rows) ==
    [k \in 1..Len(rows) |->
        [permno |-> rows[k].permno, ticker |-> rows[k].ticker,
         date |-> PeriodOfDay(rows[k].date)]]

EmptyFrame == [rows |-> <<>>, indexed |-> FALSE]

\* an emptiness test that looks at the first frame only
FinishFrameFirstOnly(dfs) ==
    IF dfs = <<>> \/ Head(dfs) = <<>> THEN EmptyFrame
    ELSE [rows |-> ToPeriodRows(sort_values(Concat(dfs))), indexed |-> TRUE]

\* lines 114-121: concatenate, and unless empty sort, convert, index by date
FinishFrame(dfs) ==
    IF Concat(dfs) = <<>> THEN EmptyFrame
    ELSE [rows |-> ToPeriodRows(sort_values(Concat(dfs))), indexed |-> TRUE]

VARIABLES
    msf,           \* the rows of the relational source
    identifiers,   \* the caller's identifier collection
    start_date,    \* the caller's start_date text
    end_date,      \* the caller's end_date text
    chunk_size,    \* the caller's chunk_size
    pc,            \* "call", "ids", "loop", "returned", "raised"
    start,         \* parsed start period, NoPeriod before parsing
    end,           \* parsed end period
    ids_list,      \* the normalized identifier list
    id_type,       \* "none", "permno", "ticker"
    i,             \* offset of the next chunk
    dfs,           \* the frames read so far
    queries,       \* the queries issued to the source, in order
    out,           \* the returned frame
    error          \* the failure raised, "none" if none

VARIABLES
    nfn,           \* the normalizer called, "none" while the batcher runs
    has_series,    \* the JSON body has the "Monthly Adjusted Time Series" key
    raw,           \* the fetched payload: the lines or entries of the data file
    n_start,       \* start_date argument, NoDate for None
    n_end,         \* end_date argument, NoDate for None
    npc,           \* "call", "returned", "raised"
    normalized,    \* the table as it stands before the date filter
    n_out,         \* the returned table
    n_error        \* the failure raised, "none" if none

VARIABLES
    stype,         \* the strategy name given to get_ff_strategies
    details,       \* the details argument, "None" by default
    factors,       \* the factors argument, "None" by default
    f_raw,         \* the payload of the factor file the merge fetches
    printed,       \* the Min Date and Max Date printed, <<>> if none
    columns        \* the column names of the strategy table

VARIABLES
    b_fn,          \* "black_scholes" or "implied_volatility"
    type,          \* the option kind
    K,             \* the strike
    f_a,           \* sign of the objective at sigma = 1e-6, where it evaluates
    f_b,           \* sign of the objective at sigma = 5.0, where it evaluates
    b_pc,          \* "call", "returned", "raised"
    b_out,         \* what is returned: "none", "price", "root", "nan"
    b_error        \* the failure raised, "none" if none

VARIABLES
    weights,            \* the three arguments of portfolio_sharpe
    expected_returns,
    covariance_matrix,
    rf,                 \* "None" by default
    zerocost,           \* "None" by default
    s_pc,               \* "call", "returned", "raised"
    Sharpe,             \* the expression returned, "none" if none
    s_error             \* the failure raised, "none" if none

normVars == <<nfn, has_series, raw, n_start, n_end, npc, normalized, n_out,
              n_error>>

stratVars == <<stype, details, factors, f_raw, printed, columns>>

bsVars == <<b_fn, type, K, f_a, f_b, b_pc, b_out, b_error>>

sharpeVars == <<weights, expected_returns, covariance_matrix, rf, zerocost,
                s_pc, Sharpe, s_error>>

toolVars == <<bsVars, sharpeVars>>

vars == <<msf, identifiers, start_date, end_date, chunk_size, pc, start, end,
          ids_list, id_type, i, dfs, queries, out, error,
          nfn, has_series, raw, n_start, n_end, npc, normalized, n_out,
          n_error, stratVars, toolVars>>

StratIdle ==
    /\ stype = "none"
    /\ details = "None"
    /\ factors = "None"
    /\ f_raw = <<>>
    /\ printed = <<>>
    /\ columns = <<>>

BsIdle ==
    /\ b_fn = "none"
    /\ type = "none"
    /\ K = 0
    /\ f_a = 0
    /\ f_b = 0
    /\ b_pc = "idle"
    /\ b_out = "none"
    /\ b_error = "none"

SharpeIdle ==
    /\ weights = <<>>
    /\ expected_returns = <<>>
    /\ covariance_matrix = <<>>
    /\ rf = "None"
    /\ zerocost = "None"
    /\ s_pc = "idle"
    /\ Sharpe = "none"
    /\ s_error = "none"

NormIdle ==
    /\ nfn = "none"
    /\ has_series = TRUE
    /\ raw = <<>>
    /\ n_start = NoDate
    /\ n_end = NoDate
    /\ npc = "idle"
    /\ normalized = <<>>
    /\ n_out = <<>>
    /\ n_error = "none"

crspVars == <<msf, identifiers, start_date, end_date, chunk_size, pc, start, end,
          ids_list, id_type, i, dfs, queries, out, error>>

StartDates == {<<2020, 1>>, <<2020, 13>>}
EndDates == {<<2020, 2>>, <<2019, 12>>, <<>>}
ChunkSizes == -1..MaxChunk

CrspInit ==
    /\ msf \in MsfTables
    /\ identifiers \in SeqsUpTo(IdPool, MaxIds)
    /\ start_date \in StartDates
    /\ end_date \in EndDates
    /\ chunk_size \in ChunkSizes
    /\ pc = "call"
    /\ start = NoPeriod
    /\ end = NoPeriod
    /\ ids_list = <<>>
    /\ id_type = "none"
    /\ i = 0
    /\ dfs = <<>>
    /\ queries = <<>>
    /\ out = EmptyFrame
    /\ error = "none"

Raise(e) == pc' = "raised" /\ error' = e

\* lines 38-42
ParseDates ==
    /\ pc = "call"
    /\ IF PeriodParses(start_date) /\ PeriodParses(end_date)
       THEN /\ start' = PeriodOf(start_date)
            /\ end' = PeriodOf(end_date)
            /\ pc' = "ids"
            /\ UNCHANGED error
       ELSE /\ Raise("INVALID_DATE")
            /\ UNCHANGED <<start, end>>
    /\ UNCHANGED <<normVars, stratVars, toolVars>>
    /\ UNCHANGED <<msf, identifiers, start_date, end_date, chunk_size, ids_list,
                   id_type, i, dfs, queries, out>>

\* lines 44-68
NormalizeIds ==
    /\ pc = "ids"
    /\ IF IsEmptyList(identifiers)
       THEN /\ Raise("EMPTY_INPUT")
            /\ UNCHANGED <<ids_list, id_type>>
       ELSE IF all_numeric_like(identifiers)
       THEN /\ id_type' = "permno"
            /\ IF \A k \in 1..Len(identifiers) : IntCastable(identifiers[k])
               THEN /\ ids_list' = CastAllInt(identifiers)
                    /\ pc' = "loop"
                    /\ UNCHANGED error
               ELSE /\ Raise("INT_VALUE_ERROR")
                    /\ UNCHANGED ids_list
       ELSE /\ id_type' = "ticker"
            /\ ids_list' = UpperStripAll(identifiers)
            /\ IF AnyQuoted(UpperStripAll(identifiers))
               THEN Raise("INVALID_IDENTIFIER")
               ELSE pc' = "loop" /\ UNCHANGED error
    /\ UNCHANGED <<normVars, stratVars, toolVars>>
    /\ UNCHANGED <<msf, identifiers, start_date, end_date, chunk_size, start, end,
                   i, dfs, queries, out>>

\* range(0, len(seq), 0) raises when the loop asks for the first chunk
RangeError ==
    /\ pc = "loop"
    /\ chunk_size = 0
    /\ Raise("RANGE_STEP_ZERO")
    /\ UNCHANGED <<normVars, stratVars, toolVars>>
    /\ UNCHANGED <<msf, identifiers, start_date, end_date, chunk_size, start, end,
                   ids_list, id_type, i, dfs, queries, out>>

MoreChunks == chunk_size > 0 /\ i < Len(ids_list)

Query(sub) ==
    [col |-> id_type, ids |-> sub, lo |-> start, hi |-> end,
     nrows |-> Len(read_sql_query(msf, id_type, sub, start, end))]

\* lines 101-112, one pass of the loop whose query succeeds
ChunkQuery ==
    /\ pc = "loop"
    /\ MoreChunks
    /\ LET sub == ChunkSlice(ids_list, i, chunk_size) IN
         /\ queries' = Append(queries, Query(sub))
         /\ dfs' = Append(dfs, read_sql_query(msf, id_type, sub, start, end))
    /\ i' = NextOffset(i, chunk_size)
    /\ UNCHANGED <<normVars, stratVars, toolVars>>
    /\ UNCHANGED <<msf, identifiers, start_date, end_date, chunk_size, pc, start,
                   end, ids_list, id_type, out, error>>

\* a loop that swallows the failure and goes on to the next chunk
SwallowQueryError ==
    /\ i' = NextOffset(i, chunk_size)
    /\ UNCHANGED <<pc, error, dfs>>

\* line 112 sits in no try block: the failure leaves the loop and the call
PropagateQueryError ==
    /\ Raise("QUERY_FAILED")
    /\ UNCHANGED <<i, dfs>>

\* lines 101-112, one pass of the loop whose query raises in the source
ChunkQueryFails ==
    /\ pc = "loop"
    /\ MoreChunks
    /\ LET sub == ChunkSlice(ids_list, i, chunk_size) IN
         queries' = Append(queries, [Query(sub) EXCEPT !.nrows = -1])
    /\ PropagateQueryError
    /\ UNCHANGED <<normVars, stratVars, toolVars>>
    /\ UNCHANGED <<msf, identifiers, start_date, end_date, chunk_size, start, end,
                   ids_list, id_type, out>>

\* lines 114-121
Finish ==
    /\ pc = "loop"
    /\ chunk_size # 0
    /\ ~MoreChunks
    /\ out' = FinishFrame(dfs)
    /\ pc' = "returned"
    /\ UNCHANGED <<normVars, stratVars, toolVars>>
    /\ UNCHANGED <<msf, identifiers, start_date, end_date, chunk_size, start, end,
                   ids_list, id_type, i, dfs, queries, error>>

Next ==
    \/ ParseDates
    \/ NormalizeIds
    \/ RangeError
    \/ ChunkQuery
    \/ ChunkQueryFails
    \/ Finish

Init == CrspInit /\ NormIdle /\ StratIdle /\ BsIdle /\ SharpeIdle

Spec == Init /\ [][Next]_vars


\* ======================================================================
\* The monthly table normalizers
\* ======================================================================
\* A line of a data file, or an entry of the JSON series, keeps its date
\* text and one value column.  Values count units of 0.0001, so the archive's
\* percentage 1.23 is 12300 and the decimal fraction 0.0123 is 123.
\* nan marks a value text that is not a number.
DataLine(d, v) == [k |-> "row", date |-> d, val |-> v, nan |-> FALSE]
BadValueLine(d) == [k |-> "row", date |-> d, val |-> 0, nan |-> TRUE]
MarkerLine == [k |-> "marker", date |-> 0, val |-> 0, nan |-> FALSE]

\* lines of a factor file after the skipped header, dates as yyyymm
FactorLines ==
    { DataLine(201912, 5000), DataLine(202001, 12300), DataLine(202002, -45000),
      BadValueLine(202001), MarkerLine }

\* entries of "Monthly Adjusted Time Series", keyed by a date yyyymmdd
SeriesEntries ==
    { DataLine(20200105, 1000000), DataLine(20200131, 1010000),
      DataLine(20191231, 990000), BadValueLine(20200210) }

\* the keys of a JSON object are distinct
DistinctKeys(ls) ==
    \A a, b \in 1..Len(ls) : a # b => ls[a].date # ls[b].date

OptionalDates == {NoDate, <<2020, 1>>, <<2020, 2>>}

\* str.contains("Annual Factors: January-December") on the first column
ContainsMarker(line) == line.k = "marker"

HasMarker(ls) == \E k \in 1..Len(ls) : ContainsMarker(ls[k])

\* raw[...str.contains(marker)].index[0]
FirstMarker(ls) ==
    CHOOSE k \in 1..Len(ls) :
        /\ ContainsMarker(ls[k])
        /\ \A j \in 1..(k - 1) : ~ContainsMarker(ls[j])

\* raw.iloc[:stop]
BeforeMarker(ls) == SubSeq(ls, 1, FirstMarker(ls) - 1)

\* a table that keeps the percentage values as they are
PercentUnscaled(v) == v

\* df.iloc[:, 1:] * 0.01
Percent(v) == v \div 100

\* date to monthly period, pd.to_numeric(errors="coerce"), scaling, set_index
FactorTable(ls) ==
    [k \in 1..Len(ls) |->
        [period |-> PeriodOfYM(ls[k].date), val |-> Percent(ls[k].val),
         nan |-> ls[k].nan]]

\* astype(float), pd.to_datetime(index).to_period("M")
SeriesTable(ls) ==
    [k \in 1..Len(ls) |->
        [period |-> PeriodOfDay(ls[k].date), val |-> ls[k].val, nan |-> FALSE]]

\* df.dropna(how="all") with the one value column
DropNa(rows) == SelectSeq(rows, LAMBDA r : ~r.nan)

\* the places where r can go into an ascending sequence
InsertionsOf(r, a) ==
    { SubSeq(a, 1, j) \o <<r>> \o SubSeq(a, j + 1, Len(a)) :
        j \in { j \in 0..Len(a) :
                  /\ j = 0 \/ a[j].period <= r.period
                  /\ j = Len(a) \/ r.period <= a[j + 1].period } }

\* df.sort_index(): every ascending arrangement of the rows; the default
\* sort is not stable, so rows of one period come out in either order
RECURSIVE sort_index(_)
sort_index(rows) ==
    IF rows = <<>> THEN {<<>>}
    ELSE UNION { InsertionsOf(Head(rows), a) : a \in sort_index(Tail(rows)) }

\* a filter that drops the boundary period
KeepAfter(rows, d) ==
    IF d = NoDate THEN rows
    ELSE SelectSeq(rows, LAMBDA r : r.period > PeriodOf(d))

\* if start_date is not None: df = df[df.index >= pd.Period(start_date, freq="M")]
KeepFrom(rows, d) ==
    IF d = NoDate THEN rows
    ELSE SelectSeq(rows, LAMBDA r : r.period >= PeriodOf(d))

\* if end_date is not None: df = df[df.index <= pd.Period(end_date, freq="M")]
KeepUntil(rows, d) ==
    IF d = NoDate THEN rows
    ELSE SelectSeq(rows, LAMBDA r : r.period <= PeriodOf(d))

\* index.searchsorted(p, side="left") and side="right" on an ascending index
SearchSortedLeft(rows, p) == Cardinality({k \in 1..Len(rows) : rows[k].period < p})
SearchSortedRight(rows, p) == Cardinality({k \in 1..Len(rows) : rows[k].period <= p})

\* a label slice that stops before the end label
LocSliceHalfOpen(rows, lo, hi) ==
    IF lo = NoDate /\ hi = NoDate THEN rows
    ELSE SubSeq(rows,
                (IF lo = NoDate THEN 0 ELSE SearchSortedLeft(rows, PeriodOf(lo))) + 1,
                IF hi = NoDate THEN Len(rows)
                ELSE SearchSortedLeft(rows, PeriodOf(hi)))

\* if start_p or end_p: df = df.loc[start_p:end_p]
LocSlice(rows, lo, hi) ==
    IF lo = NoDate /\ hi = NoDate THEN rows
    ELSE SubSeq(rows,
                (IF lo = NoDate THEN 0 ELSE SearchSortedLeft(rows, PeriodOf(lo))) + 1,
                IF hi = NoDate THEN Len(rows)
                ELSE SearchSortedRight(rows, PeriodOf(hi)))

NormInit ==
    /\ nfn \in {"format_alpha_vantage", "get_ff3", "get_ff5"}
    /\ IF nfn = "format_alpha_vantage"
       THEN \/ /\ has_series = TRUE
               /\ raw \in {ls \in SeqsUpTo(SeriesEntries, MaxLines) : DistinctKeys(ls)}
            \/ /\ has_series = FALSE
               /\ raw = <<>>
       ELSE /\ has_series = TRUE
            /\ raw \in SeqsUpTo(FactorLines, MaxLines)
    /\ n_start \in OptionalDates
    /\ n_end \in OptionalDates
    /\ npc = "call"
    /\ normalized = <<>>
    /\ n_out = <<>>
    /\ n_error = "none"

CrspIdle ==
    /\ msf = <<>>
    /\ identifiers = <<>>
    /\ start_date = NoDate
    /\ end_date = NoDate
    /\ chunk_size = 1
    /\ pc = "idle"
    /\ start = NoPeriod
    /\ end = NoPeriod
    /\ ids_list = <<>>
    /\ id_type = "none"
    /\ i = 0
    /\ dfs = <<>>
    /\ queries = <<>>
    /\ out = EmptyFrame
    /\ error = "none"

NormRaise(e) ==
    /\ npc' = "raised"
    /\ n_error' = e
    /\ UNCHANGED <<normalized, n_out>>

NormReturn(table, result) ==
    /\ npc' = "returned"
    /\ normalized' = table
    /\ n_out' = result
    /\ UNCHANGED n_error

\* alpha_vantage.py lines 23-60
FormatAlphaVantage ==
    /\ nfn = "format_alpha_vantage"
    /\ npc = "call"
    /\ IF ~has_series THEN NormRaise("KeyError")
       ELSE IF raw = <<>> THEN NormRaise("ValueError: Length mismatch")
       ELSE IF \E k \in 1..Len(raw) : raw[k].nan
            THEN NormRaise("ValueError: could not convert string to float")
       ELSE \E df \in sort_index(SeriesTable(raw)) :
              NormReturn(df, KeepUntil(KeepFrom(df, n_start), n_end))
    /\ UNCHANGED <<nfn, has_series, raw, n_start, n_end, stratVars>>
    /\ UNCHANGED <<crspVars, toolVars>>

\* pd.to_datetime(col, format='%Y%m').dt.to_period() names no frequency:
\* pandas infers one from the dates, which needs at least three dates that
\* are distinct, in order and evenly spaced.  Successive months give "MS"
\* and monthly periods; months running backwards give a negative span,
\* which a period frequency rejects; anything else gives no frequency and
\* to_period() raises ValueError.
InfersMonthly(ls) ==
    /\ Len(ls) >= 3
    /\ \A k \in 1..(Len(ls) - 1) :
          PeriodOfYM(ls[k + 1].date) = PeriodOfYM(ls[k].date) + 1

\* dartmouth.py lines 75-98.  Without a marker line the first column of a
\* non-empty file is read as integers and has no .str accessor; the first
\* column of an empty file is an object column, where index[0] fails.
FF3Failure(ls) ==
    IF ls = <<>> THEN "IndexError"
    ELSE IF ~HasMarker(ls) THEN "AttributeError"
    ELSE IF ~InfersMonthly(BeforeMarker(ls))
         THEN "ValueError: You must pass a freq argument"
    ELSE "none"

GetFF3 ==
    /\ nfn = "get_ff3"
    /\ npc = "call"
    /\ IF FF3Failure(raw) # "none" THEN NormRaise(FF3Failure(raw))
       ELSE LET df == FactorTable(BeforeMarker(raw)) IN
              NormReturn(df, KeepUntil(KeepFrom(df, n_start), n_end))
    /\ UNCHANGED <<nfn, has_series, raw, n_start, n_end, stratVars>>
    /\ UNCHANGED <<crspVars, toolVars>>

\* dartmouth.py lines 20-55.  The first column is cast to str before the
\* search, so a file without a marker line always fails at index[0].
FF5Failure(ls) == IF ~HasMarker(ls) THEN "IndexError" ELSE "none"

GetFF5 ==
    /\ nfn = "get_ff5"
    /\ npc = "call"
    /\ IF FF5Failure(raw) # "none" THEN NormRaise(FF5Failure(raw))
       ELSE \E df \in sort_index(DropNa(FactorTable(BeforeMarker(raw)))) :
              NormReturn(df, LocSlice(df, n_start, n_end))
    /\ UNCHANGED <<nfn, has_series, raw, n_start, n_end, stratVars>>
    /\ UNCHANGED <<crspVars, toolVars>>

NormNext ==
    \/ FormatAlphaVantage
    \/ GetFF3
    \/ GetFF5

InitNorm == NormInit /\ CrspIdle /\ StratIdle /\ BsIdle /\ SharpeIdle

SpecNorm == InitNorm /\ [][NormNext]_vars

\* ======================================================================
\* Properties of get_crsp_msf_by_ids
\* ======================================================================
CeilDiv(n, c) == (n + c - 1) \div c

RECURSIVE ConcatIds(_)
ConcatIds(qs) == IF qs = <<>> THEN <<>> ELSE Head(qs).ids \o ConcatIds(Tail(qs))

RECURSIVE SumRows(_)
SumRows(qs) == IF qs = <<>> THEN 0 ELSE Head(qs).nrows + SumRows(Tail(qs))

IsPrefix(a, b) == Len(a) <= Len(b) /\ a = SubSeq(b, 1, Len(a))

\* C1: a call with a positive chunk_size that returns a table has issued
\* exactly ceil(n / chunk_size) queries for its n identifiers, and the
\* returned table has as many rows as the chunk queries returned together;
\* at no time have more than ceil(n / chunk_size) queries been issued.
C1_QueryCountAndRows ==
    chunk_size > 0 =>
      /\ Len(queries) <= CeilDiv(Len(identifiers), chunk_size)
      /\ pc = "returned" =>
           /\ Len(queries) = CeilDiv(Len(identifiers), chunk_size)
           /\ Len(out.rows) = SumRows(queries)

C1_Witness ==
    /\ pc = "returned"
    /\ Len(identifiers) = 3
    /\ chunk_size = 2
    /\ Len(queries) = 2
    /\ queries[1].nrows > 0
    /\ queries[2].nrows > 0
    /\ Len(out.rows) = queries[1].nrows + queries[2].nrows

\* C2: every issued query embeds a non-empty chunk of at most chunk_size
\* identifiers, the chunks in issue order are consecutive slices of the
\* normalized list (their concatenation is a prefix of it), and when the
\* call returns the concatenation is the whole normalized list.
C2_ChunksPartitionList ==
    chunk_size > 0 =>
      /\ \A k \in 1..Len(queries) :
            /\ queries[k].ids # <<>>
            /\ Len(queries[k].ids) <= chunk_size
      /\ IsPrefix(ConcatIds(queries), ids_list)
      /\ pc = "returned" => ConcatIds(queries) = ids_list

C2_Witness ==
    /\ pc = "returned"
    /\ chunk_size = 2
    /\ Len(queries) = 2
    /\ Len(queries[1].ids) = 2
    /\ Len(queries[2].ids) = 1
    /\ queries[1].ids \o queries[2].ids = ids_list

\* what the documentation calls a ticker and a PERMNO
TickerLike(x) ==
    /\ x.t = "str"
    /\ Strip(x.s) # <<>>
    /\ \A k \in 1..Len(x.s) : x.s[k] \notin DecimalDigits \cup {SUP2, "'", "\""}

NumericLike(x) ==
    \/ x.t = "int"
    \/ /\ x.t = "str"
       /\ Strip(x.s) # <<>>
       /\ \A k \in 1..Len(Strip(x.s)) : Strip(x.s)[k] \in DecimalDigits

MixedKinds(ids) ==
    /\ \E k \in 1..Len(ids) : TickerLike(ids[k])
    /\ \E k \in 1..Len(ids) : NumericLike(ids[k])

\* C3: a batch that mixes ticker-like and numeric-like identifiers is
\* rejected with INVALID_IDENTIFIER: no query is issued for it, no table is
\* returned, and with parseable dates the failure is INVALID_IDENTIFIER.
C3_MixedKindsRejected ==
    MixedKinds(identifiers) =>
      /\ queries = <<>>
      /\ pc # "returned"
      /\ (pc = "raised" /\ start # NoPeriod) => error = "INVALID_IDENTIFIER"

QuoteFree(t) == \A k \in 1..Len(t) : t[k] \notin {"'", "\""}

\* C4: no identifier embedded in an issued query contains a quote
\* character: a ticker query embeds quote-free strings, a PERMNO query
\* embeds integers only, and a ticker batch in which some ticker contains a
\* quote issues no query, returns nothing and fails with INVALID_IDENTIFIER.
C4_NoQuoteReachesQuery ==
    /\ \A k \in 1..Len(queries) : \A j \in 1..Len(queries[k].ids) :
          IF queries[k].col = "permno"
          THEN queries[k].ids[j].t = "int"
          ELSE queries[k].ids[j].t = "str" /\ QuoteFree(queries[k].ids[j].s)
    /\ (\E k \in 1..Len(identifiers) : ~QuoteFree(identifiers[k].s)) =>
          /\ queries = <<>>
          /\ pc # "returned"
          /\ (pc = "raised" /\ start # NoPeriod) => error = "INVALID_IDENTIFIER"

C4_Witness ==
    /\ pc = "raised"
    /\ error = "INVALID_IDENTIFIER"
    /\ queries = <<>>
    /\ Len(identifiers) = 3
    /\ QuoteFree(identifiers[1].s)
    /\ ~QuoteFree(identifiers[3].s)

\* C5: a call with an empty identifier collection never returns a table and
\* never issues a query, whatever the chunk_size; with a parseable date
\* range its failure is EMPTY_INPUT.
C5_EmptyInputFails ==
    identifiers = <<>> =>
      /\ pc # "returned"
      /\ pc # "loop"
      /\ queries = <<>>
      /\ (pc = "raised" /\ PeriodParses(start_date) /\ PeriodParses(end_date))
            => error = "EMPTY_INPUT"

C5_Witness ==
    /\ identifiers = <<>>
    /\ chunk_size <= 0
    /\ pc = "raised"
    /\ error = "EMPTY_INPUT"

\* C6: a call with a positive chunk_size that returns has had every one of
\* its chunk queries answered, and it returns the empty table exactly when
\* every chunk query returned zero rows.
C6_EmptyTableOnlyForZeroRows ==
    (pc = "returned" /\ chunk_size > 0) =>
      /\ Len(queries) = CeilDiv(Len(ids_list), chunk_size)
      /\ \A k \in 1..Len(queries) : queries[k].nrows >= 0
      /\ (out = EmptyFrame) <=> (\A k \in 1..Len(queries) : queries[k].nrows = 0)
      /\ (out # EmptyFrame) => (out.indexed /\ out.rows # <<>>)

C6_Witness ==
    /\ pc = "returned"
    /\ chunk_size > 0
    /\ Len(queries) >= 2
    /\ out = EmptyFrame

CharRank(c) ==
    CASE c \in DecimalDigits -> DigitVal(c)
      [] c = "A" -> 17 [] c = "B" -> 18 [] c = "C" -> 19
      [] OTHER -> 99

RECURSIVE StrLeq(_, _)
StrLeq(a, b) ==
    IF a = <<>> THEN TRUE
    ELSE IF b = <<>> THEN FALSE
    ELSE IF CharRank(Head(a)) # CharRank(Head(b))
         THEN CharRank(Head(a)) < CharRank(Head(b))
    ELSE StrLeq(Tail(a), Tail(b))

\* C7 as claimed: the returned non-empty table is ordered by the identifier
\* column of the kind the request used (ticker for a ticker batch, permno
\* for a PERMNO batch) and by date within equal identifiers.
C7_SortedByRequestedId ==
    (pc = "returned" /\ out.indexed) =>
      \A k \in 1..(Len(out.rows) - 1) :
        LET a == out.rows[k]
            b == out.rows[k + 1]
        IN IF id_type = "permno"
           THEN a.permno < b.permno \/ (a.permno = b.permno /\ a.date <= b.date)
           ELSE (a.ticker # b.ticker /\ StrLeq(a.ticker, b.ticker))
                \/ (a.ticker = b.ticker /\ a.date <= b.date)

\* C7 as amended: for both identifier kinds the returned non-empty table is
\* ordered by permno first and by date second.
C7_SortedByPermnoThenDate ==
    (pc = "returned" /\ out.indexed) =>
      \A k \in 1..(Len(out.rows) - 1) :
        LET a == out.rows[k]
            b == out.rows[k + 1]
        IN a.permno < b.permno \/ (a.permno = b.permno /\ a.date <= b.date)

C7_Witness ==
    /\ pc = "returned"
    /\ id_type = "ticker"
    /\ out.indexed
    /\ Len(out.rows) >= 3
    /\ \E k \in 1..(Len(out.rows) - 1) : out.rows[k].permno < out.rows[k + 1].permno
    /\ \E k \in 1..(Len(out.rows) - 1) :
          /\ out.rows[k].permno = out.rows[k + 1].permno
          /\ out.rows[k].date < out.rows[k + 1].date

\* the normalized form the data model prescribes for each kind
ExpectedIds(ids) ==
    IF \A k \in 1..Len(ids) : NumericLike(ids[k])
    THEN [k \in 1..Len(ids) |-> PyInt(IntOf(ids[k]))]
    ELSE [k \in 1..Len(ids) |-> PyStr(Upper(Strip(StrOf(ids[k]))))]

\* C8: the kind is decided once for the batch: it is numeric exactly when
\* every element is an integer or a trimmed string of digits; every query
\* of the call filters on the column of that kind, and the identifiers
\* embedded in the queries are, position by position, the integer values
\* (numeric batch) or the trimmed upper-cased strings (ticker batch) of the
\* caller's elements.
C8_KindDecidedOnce ==
    /\ pc \in {"loop", "returned"} =>
          (id_type = "permno" <=> \A k \in 1..Len(identifiers) : NumericLike(identifiers[k]))
    /\ \A k \in 1..Len(queries) :
          /\ queries[k].col = id_type
          /\ queries[k].col = "permno" <=>
                \A j \in 1..Len(identifiers) : NumericLike(identifiers[j])
    /\ IsPrefix(ConcatIds(queries), ExpectedIds(identifiers))

C8_Witness ==
    /\ pc = "returned"
    /\ id_type = "permno"
    /\ Len(queries) = 2
    /\ \E k \in 1..Len(identifiers) : identifiers[k].t = "str"
    /\ \E k \in 1..Len(identifiers) : identifiers[k].t = "int"


\* ======================================================================
\* Properties of the normalizers
\* ======================================================================
\* C9: the period index of every monthly table a normalizer returns is
\* strictly increasing, so it is ascending and holds no period twice.
C9_IndexStrictlyIncreasing ==
    npc = "returned" =>
      \A k \in 1..(Len(n_out) - 1) : n_out[k].period < n_out[k + 1].period

InBounds(p) ==
    /\ n_start = NoDate \/ PeriodOf(n_start) <= p
    /\ n_end = NoDate \/ p <= PeriodOf(n_end)

\* C10: for each normalizer and each combination of bounds, the returned
\* table is the normalized table restricted to the rows whose period lies
\* within the given bounds, both bounds inclusive and an absent bound open.
C10_InclusiveDateFilter ==
    npc = "returned" =>
      n_out = SelectSeq(normalized, LAMBDA r : InBounds(r.period))

C10_Witness ==
    /\ npc = "returned"
    /\ nfn = "get_ff5"
    /\ n_start # NoDate
    /\ n_end = n_start
    /\ \E k \in 1..Len(normalized) : normalized[k].period < PeriodOf(n_start)
    /\ \E k \in 1..Len(normalized) : normalized[k].period > PeriodOf(n_end)
    /\ n_out # <<>>
    /\ \A k \in 1..Len(n_out) : n_out[k].period = PeriodOf(n_start)


\* ======================================================================
\* Order of validation, queries and failures in get_crsp_msf_by_ids
\* ======================================================================
\* C16: the k-th query issued embeds the k-th chunk of the normalized list,
\* so chunks are queried one after another in list order and none twice; a
\* failed query is the last query of the call, the call fails with that
\* failure and returns no table, and the frames of the earlier chunks stay
\* unreturned.
C16_SequentialFailFast ==
    /\ \A k \in 1..Len(queries) :
          /\ chunk_size > 0
          /\ queries[k].ids =
                SubSeq(ids_list, (k - 1) * chunk_size + 1,
                       Min(k * chunk_size, Len(ids_list)))
          /\ queries[k].nrows = -1 =>
                /\ k = Len(queries)
                /\ pc = "raised"
                /\ error = "QUERY_FAILED"
                /\ out = EmptyFrame
                /\ Len(dfs) = k - 1
    /\ error = "QUERY_FAILED" =>
          /\ pc = "raised"
          /\ queries # <<>>
          /\ queries[Len(queries)].nrows = -1

C16_Witness ==
    /\ pc = "raised"
    /\ error = "QUERY_FAILED"
    /\ chunk_size = 1
    /\ Len(ids_list) = 3
    /\ Len(queries) = 2
    /\ queries[1].nrows > 0
    /\ dfs[1] # <<>>
    /\ out = EmptyFrame

\* C17: no step changes the caller's identifier collection; a call that has
\* failed with INVALID_DATE, EMPTY_INPUT or INVALID_IDENTIFIER has issued no
\* query; and once a query has been issued both dates are calendar months,
\* the collection is non-empty and no identifier holds a quote.
C17_ValidationBeforeQueries ==
    [][ /\ identifiers' = identifiers
        /\ error' \in {"INVALID_DATE", "EMPTY_INPUT", "INVALID_IDENTIFIER"} =>
              (queries' = <<>> /\ pc' = "raised")
        /\ queries' # <<>> =>
              /\ Len(start_date) = 2 /\ start_date[2] \in 1..12
              /\ Len(end_date) = 2 /\ end_date[2] \in 1..12
              /\ identifiers # <<>>
              /\ \A k \in 1..Len(identifiers) : QuoteFree(identifiers[k].s)
      ]_vars

C17_Witness ==
    /\ pc = "raised"
    /\ error = "INVALID_DATE"
    /\ queries = <<>>
    /\ Len(identifiers) = 2
    /\ ~QuoteFree(identifiers[2].s)


\* ======================================================================
\* Properties of the factor normalizers get_ff3 and get_ff5
\* ======================================================================
\* the returned row r is the archive line l with its value divided by 100
FromLine(r, l) ==
    /\ l.k = "row"
    /\ r.period = PeriodOfYM(l.date)
    /\ r.nan = l.nan
    /\ ~l.nan => r.val * 100 = l.val

\* the lines the caller is to get back: those above the first marker line
\* whose month lies within the bounds, less for get_ff5 the lines whose
\* every value is missing
LinesToReturn ==
    SelectSeq(BeforeMarker(raw),
              LAMBDA l : /\ InBounds(PeriodOfYM(l.date))
                         /\ nfn = "get_ff5" => ~l.nan)

Strategies == {"beta", "momentum", "shorttermreversal", "accruals"}

\* the line "  Equal Weighted Returns -- Monthly" and the line
\* "  Average Equal Weighted Returns -- Monthly" of a portfolio file
EqualWeightedLine == [k |-> "equal", date |-> 0, val |-> 0, nan |-> FALSE]
AverageEqualWeightedLine == [k |-> "average_equal", date |-> 0, val |-> 0, nan |-> FALSE]

\* lines of a portfolio file after the skipped header, dates as yyyymm
StrategyLines ==
    { DataLine(201912, 5000), DataLine(202001, 12300), DataLine(202002, -45000),
      EqualWeightedLine, AverageEqualWeightedLine }

\* the factor files the merge may be served
FactorFiles ==
    { << DataLine(201912, 5000), DataLine(202001, 12300),
         DataLine(202002, -45000), MarkerLine >>,
      << DataLine(202001, 12300), DataLine(202001, 12300), MarkerLine >>,
      << DataLine(202002, -45000), DataLine(201912, 5000) >> }

StrategyDates == {NoDate, <<2020, 1>>}

\* a search for the shorter text in every branch
ContainsEqualWeighted(s, line) == line.k \in {"equal", "average_equal"}

\* str.contains(...) on the first column: the momentum branch looks for
\* "Average Equal Weighted Returns -- Monthly", the other three for
\* "Equal Weighted Returns -- Monthly", which the longer text contains
ContainsStrategyMarker(s, line) ==
    IF s = "momentum" THEN line.k = "average_equal"
    ELSE line.k \in {"equal", "average_equal"}

HasStrategyMarker(s, ls) ==
    \E k \in 1..Len(ls) : ContainsStrategyMarker(s, ls[k])

\* dat[...str.contains(marker)].index[0]
FirstStrategyMarker(s, ls) ==
    CHOOSE k \in 1..Len(ls) :
        /\ ContainsStrategyMarker(s, ls[k])
        /\ \A j \in 1..(k - 1) : ~ContainsStrategyMarker(s, ls[j])

\* dat.iloc[:start_index]
BeforeStrategyMarker(s, ls) == SubSeq(ls, 1, FirstStrategyMarker(s, ls) - 1)

\* The way a branch fails before it has a table.  An empty first column
\* and one that holds a line of text are object columns, where index[0]
\* fails when nothing matches; a first column of dates only is read as
\* integers and has no .str accessor.  A line of text above the marker
\* fails the '%Y%m' parse, and to_period() needs a frequency to infer.
StrategyFailure(s, ls) ==
    IF ls = <<>> THEN "IndexError"
    ELSE IF \A k \in 1..Len(ls) : ls[k].k = "row" THEN "AttributeError"
    ELSE IF ~HasStrategyMarker(s, ls) THEN "IndexError"
    ELSE IF \E k \in 1..Len(BeforeStrategyMarker(s, ls)) :
                BeforeStrategyMarker(s, ls)[k].k # "row"
         THEN "ValueError: time data does not match format"
    ELSE IF ~InfersMonthly(BeforeStrategyMarker(s, ls))
         THEN "ValueError: You must pass a freq argument"
    ELSE "none"

\* the columns of dat3 for a file with the published header
DecileColumns ==
    << "Dec 1", "Dec 2", "Dec 3", "Dec 4", "Dec 5",
       "Dec 6", "Dec 7", "Dec 8", "Dec 9", "Dec 10" >>

\* ff5[['mkt-rf', 'smb', 'hml', 'smb', 'cma', 'rf']]
FF5Selection == << "mkt-rf", "smb", "hml", "smb", "cma", "rf" >>

\* ff3[['mkt-rf','smb','hml','rf']]
FF3Selection == << "mkt-rf", "smb", "hml", "rf" >>

\* dat3.index.min() and dat3.index.max()
MinPeriod(rows) ==
    CHOOSE p \in {rows[k].period : k \in 1..Len(rows)} :
        \A k \in 1..Len(rows) : p <= rows[k].period
MaxPeriod(rows) ==
    CHOOSE p \in {rows[k].period : k \in 1..Len(rows)} :
        \A k \in 1..Len(rows) : p >= rows[k].period

\* a description computed after the date filter
DescribedTableFiltered == KeepUntil(KeepFrom(normalized, n_start), n_end)

\* dat3 where "Min Date" and "Max Date" are computed
DescribedTable == normalized

\* the rows of the right table that go with one row of the left table
MatchRows(l, right) ==
    LET m == SelectSeq(right, LAMBDA r : r.period = l.period) IN
      [j \in 1..Len(m) |->
          [period |-> l.period, val |-> l.val, nan |-> l.nan,
           f |-> m[j].val, fnan |-> m[j].nan]]

\* pd.merge(left, right, left_index=True, right_index=True, how='inner'):
\* the periods of both tables, in the order of the left table
RECURSIVE merge(_, _)
merge(left, right) ==
    IF left = <<>> THEN <<>>
    ELSE MatchRows(Head(left), right) \o merge(Tail(left), right)

\* nothing is fetched for a name that no branch handles
StrategyInit ==
    /\ nfn = "get_ff_strategies"
    /\ has_series = TRUE
    /\ stype \in Strategies \cup {"value"}
    /\ IF stype \in Strategies
       THEN /\ raw \in SeqsUpTo(StrategyLines, MaxLines)
            /\ f_raw \in FactorFiles
       ELSE /\ raw = <<>>
            /\ f_raw = <<>>
    /\ n_start \in StrategyDates
    /\ n_end \in StrategyDates
    /\ details \in {"True", "None"}
    /\ factors \in {"FF5", "FF3", "None"}
    /\ npc = "call"
    /\ normalized = <<>>
    /\ n_out = <<>>
    /\ n_error = "none"
    /\ printed = <<>>
    /\ columns = <<>>

\* get_ff3 and get_ff5 called on their own
FactorInit ==
    /\ nfn \in {"get_ff3", "get_ff5"}
    /\ has_series = TRUE
    /\ raw \in SeqsUpTo(FactorLines, MaxLines)
    /\ n_start \in OptionalDates
    /\ n_end \in OptionalDates
    /\ npc = "call"
    /\ normalized = <<>>
    /\ n_out = <<>>
    /\ n_error = "none"
    /\ StratIdle

\* dartmouth.py lines 102-138, 158-196, 216-256, 271-307 and 322-323: the
\* branch of the strategy up to dat3, or the ValueError of the last else
StrategyTable ==
    /\ nfn = "get_ff_strategies"
    /\ npc = "call"
    /\ IF stype \notin Strategies
       THEN /\ NormRaise("UNSUPPORTED_STRATEGY")
            /\ UNCHANGED columns
       ELSE IF StrategyFailure(stype, raw) # "none"
       THEN /\ NormRaise(StrategyFailure(stype, raw))
            /\ UNCHANGED columns
       ELSE /\ npc' = "table"
            /\ normalized' = FactorTable(BeforeStrategyMarker(stype, raw))
            /\ columns' = DecileColumns
            /\ UNCHANGED <<n_out, n_error>>
    /\ UNCHANGED <<nfn, has_series, raw, n_start, n_end>>
    /\ UNCHANGED <<stype, details, factors, f_raw, printed>>
    /\ UNCHANGED <<crspVars, toolVars>>

\* dartmouth.py lines 139-154, 197-212, 257-268, 308-320: if details is True
StrategyDetails ==
    /\ nfn = "get_ff_strategies"
    /\ npc = "table"
    /\ details = "True"
    /\ printed' = << MinPeriod(DescribedTable), MaxPeriod(DescribedTable) >>
    /\ npc' = "described"
    /\ UNCHANGED <<nfn, has_series, raw, n_start, n_end, normalized, n_out, n_error>>
    /\ UNCHANGED <<stype, details, factors, f_raw, columns>>
    /\ UNCHANGED <<crspVars, toolVars>>

MergeReturn(ft, selection) ==
    /\ npc' = "returned"
    /\ n_out' = merge(KeepUntil(KeepFrom(normalized, n_start), n_end), ft)
    /\ columns' = columns \o selection
    /\ UNCHANGED <<normalized, n_error>>

\* dartmouth.py lines 325-342: the date filter, then the merge with
\* get_ff5() when factors == 'FF5' and with get_ff3() in every other case
StrategyMerge ==
    /\ nfn = "get_ff_strategies"
    /\ \/ npc = "described"
       \/ npc = "table" /\ details # "True"
    /\ IF factors = "FF5"
       THEN IF FF5Failure(f_raw) # "none"
            THEN NormRaise(FF5Failure(f_raw)) /\ UNCHANGED columns
            ELSE \E ff5 \in sort_index(DropNa(FactorTable(BeforeMarker(f_raw)))) :
                   MergeReturn(ff5, FF5Selection)
       ELSE IF FF3Failure(f_raw) # "none"
            THEN NormRaise(FF3Failure(f_raw)) /\ UNCHANGED columns
            ELSE MergeReturn(FactorTable(BeforeMarker(f_raw)), FF3Selection)
    /\ UNCHANGED <<nfn, has_series, raw, n_start, n_end>>
    /\ UNCHANGED <<stype, details, factors, f_raw, printed>>
    /\ UNCHANGED <<crspVars, toolVars>>

NextFF ==
    \/ GetFF3
    \/ GetFF5
    \/ StrategyTable
    \/ StrategyDetails
    \/ StrategyMerge

InitFF == (FactorInit \/ StrategyInit) /\ CrspIdle /\ BsIdle /\ SharpeIdle

SpecFF == InitFF /\ [][NextFF]_vars


\* ======================================================================
\* Properties of the archive normalizers
\* ======================================================================

\* the text the called function looks for is on no line of its payload
MarkerAbsent ==
    CASE nfn \in {"get_ff3", "get_ff5"} ->
           \A k \in 1..Len(raw) : raw[k].k # "marker"
      [] nfn = "get_ff_strategies" /\ stype = "momentum" ->
           \A k \in 1..Len(raw) : raw[k].k # "average_equal"
      [] nfn = "get_ff_strategies" /\ stype \in Strategies \ {"momentum"} ->
           \A k \in 1..Len(raw) : raw[k].k \notin {"equal", "average_equal"}
      [] OTHER -> FALSE

\* the failures of the marker lookup itself
LookupFailures == {"IndexError", "AttributeError"}

Occurrences(c, cols) == Cardinality({k \in 1..Len(cols) : cols[k] = c})

\* the periods of the lines above the marker line of the factor file that
\* carry a value
FactorPeriods ==
    { PeriodOfYM(f_raw[k].date) :
        k \in { k \in 1..Len(f_raw) :
                  /\ \A j \in 1..k : f_raw[j].k = "row"
                  /\ ~(factors = "FF5" /\ f_raw[k].nan) } }

\* the periods of the strategy table that pass the date filter
FilteredPeriods ==
    { normalized[k].period :
        k \in { k \in 1..Len(normalized) : InBounds(normalized[k].period) } }

\* C13: a table get_ff_strategies returns has the ten decile columns
\* followed by the factor columns, each exactly once: mkt-rf, smb, hml,
\* rmw, cma, rf when factors is 'FF5', and mkt-rf, smb, hml, rf when the
\* three-factor table is merged; and its periods are those of the filtered
\* strategy table that the factor table also has.
C13_FactorColumnsOnce ==
    (nfn = "get_ff_strategies" /\ npc = "returned") =>
      LET want == IF factors = "FF5"
                  THEN {"mkt-rf", "smb", "hml", "rmw", "cma", "rf"}
                  ELSE {"mkt-rf", "smb", "hml", "rf"}
      IN /\ SubSeq(columns, 1, Len(DecileColumns)) = DecileColumns
         /\ Len(columns) = Len(DecileColumns) + Cardinality(want)
         /\ \A c \in want : Occurrences(c, columns) = 1
         /\ {n_out[k].period : k \in 1..Len(n_out)}
              = FilteredPeriods \cap FactorPeriods

\* C18: once a recognized strategy has printed its details, Min Date and
\* Max Date are the earliest and the latest period of the whole strategy
\* table, whatever start_date and end_date are; nothing is printed unless
\* details is True; and the returned table is the filtered strategy table
\* merged with the factor table, in which details plays no part.
C18_CoverageBeforeFilter ==
    (nfn = "get_ff_strategies" /\ stype \in Strategies) =>
      /\ (printed # <<>>) <=> (details = "True" /\ normalized # <<>>
                                 /\ npc \in {"described", "returned", "raised"})
      /\ printed # <<>> =>
            /\ \A k \in 1..Len(normalized) :
                  /\ printed[1] <= normalized[k].period
                  /\ normalized[k].period <= printed[2]
            /\ \E k \in 1..Len(normalized) : printed[1] = normalized[k].period
            /\ \E k \in 1..Len(normalized) : printed[2] = normalized[k].period
      /\ npc = "returned" =>
            /\ normalized = FactorTable(BeforeStrategyMarker(stype, raw))
            /\ \E ft \in IF factors = "FF5"
                          THEN sort_index(DropNa(FactorTable(BeforeMarker(f_raw))))
                          ELSE {FactorTable(BeforeMarker(f_raw))} :
                  n_out = merge(SelectSeq(normalized,
                                          LAMBDA r : InBounds(r.period)), ft)

\* the accruals table of 2019-12 to 2020-02 was asked from 2020-01 on with
\* details: the coverage printed starts at 2019-12, the returned table at
\* 2020-01
C18_Witness ==
    /\ nfn = "get_ff_strategies"
    /\ stype = "accruals"
    /\ details = "True"
    /\ n_start = <<2020, 1>>
    /\ npc = "returned"
    /\ printed = << PeriodOfYM(201912), PeriodOfYM(202002) >>
    /\ n_out # <<>>
    /\ n_out[1].period = PeriodOfYM(202001)


\* ======================================================================
\* black_scholes and implied_volatility
\* ======================================================================

OptionKinds == {"call", "put", "straddle"}

\* strikes given as Python numbers
Strikes == {0, 100}

Signs == {-1, 0, 1}

\* black_scholes.py lines 7-19: d1 divides S by K before the option kind
\* is looked at
black_scholes(t, k) ==
    IF k = 0 THEN "ZeroDivisionError"
    ELSE IF t \in {"call", "put"} THEN "price"
    ELSE "INVALID_OPTION_TYPE"

\* the failures that are instances of ValueError
IsValueError(e) ==
    e \in {"INVALID_OPTION_TYPE",
           "ValueError: f(a) and f(b) must have different signs"}

\* brentq(objective, 1e-6, 5.0): the objective is evaluated at both ends,
\* and a root is searched only between values of different signs
brentq(t, k, fa, fb) ==
    IF black_scholes(t, k) # "price" THEN black_scholes(t, k)
    ELSE IF fa * fb > 0
         THEN "ValueError: f(a) and f(b) must have different signs"
    ELSE "root"

BsInit ==
    /\ b_fn \in {"black_scholes", "implied_volatility"}
    /\ type \in OptionKinds
    /\ K \in Strikes
    /\ IF b_fn = "implied_volatility"
       THEN f_a \in Signs /\ f_b \in Signs
       ELSE f_a = 0 /\ f_b = 0
    /\ b_pc = "call"
    /\ b_out = "none"
    /\ b_error = "none"

BsRaise(e) ==
    /\ b_pc' = "raised"
    /\ b_error' = e
    /\ UNCHANGED b_out

BsReturn(v) ==
    /\ b_pc' = "returned"
    /\ b_out' = v
    /\ UNCHANGED b_error

\* black_scholes.py lines 5-19
BlackScholes ==
    /\ b_fn = "black_scholes"
    /\ b_pc = "call"
    /\ IF black_scholes(type, K) = "price" THEN BsReturn("price")
       ELSE BsRaise(black_scholes(type, K))
    /\ UNCHANGED <<b_fn, type, K, f_a, f_b>>
    /\ UNCHANGED <<crspVars, normVars, stratVars, sharpeVars>>

\* black_scholes.py lines 22-30: try brentq, except ValueError: nan
ImpliedVolatility ==
    /\ b_fn = "implied_volatility"
    /\ b_pc = "call"
    /\ LET res == brentq(type, K, f_a, f_b) IN
         IF res = "root" THEN BsReturn("root")
         ELSE IF IsValueError(res) THEN BsReturn("nan")
         ELSE BsRaise(res)
    /\ UNCHANGED <<b_fn, type, K, f_a, f_b>>
    /\ UNCHANGED <<crspVars, normVars, stratVars, sharpeVars>>

NextBS ==
    \/ BlackScholes
    \/ ImpliedVolatility

InitBS == BsInit /\ CrspIdle /\ NormIdle /\ StratIdle /\ SharpeIdle

SpecBS == InitBS /\ [][NextBS]_vars

\* C14: a finished call with an option kind other than call and put has
\* raised INVALID_OPTION_TYPE, from black_scholes and from
\* implied_volatility alike, and nan is returned only for a valid call
\* whose objective has the same sign at 1e-6 and at 5.0.
C14_InvalidKindSurfaces ==
    b_pc \in {"returned", "raised"} =>
      /\ type \notin {"call", "put"} =>
            /\ b_pc = "raised"
            /\ b_error = "INVALID_OPTION_TYPE"
      /\ b_out = "nan" =>
            /\ type \in {"call", "put"}
            /\ K # 0
            /\ f_a * f_b > 0


\* ======================================================================
\* portfolio_sharpe
\* ======================================================================

\* the shapes of arrays of rank 0 to 3
Shapes == SeqsUpTo(1..MaxAssets, 3)

ndarray(shape) == [array |-> TRUE, shape |-> shape]

\* an argument that is not an ndarray, a list for one
NotArray == [array |-> FALSE, shape |-> <<>>]

Arguments == {NotArray} \cup {ndarray(sh) : sh \in Shapes}

\* a check of the first dimension only
ShapeStartsWith(shape, n) == shape[1] = n

\* covariance_matrix.shape != (n_assets, n_assets)
ShapeIsSquare(shape, n) == shape = <<n, n>>

SharpeInit ==
    /\ weights \in Arguments
    /\ expected_returns \in Arguments
    /\ covariance_matrix \in Arguments
    /\ rf \in {"None", "0.02"}
    /\ zerocost \in {"None", "True"}
    /\ s_pc = "call"
    /\ Sharpe = "none"
    /\ s_error = "none"

SharpeRaise(e) ==
    /\ s_pc' = "raised"
    /\ s_error' = e
    /\ UNCHANGED Sharpe

SharpeReturn(v) ==
    /\ s_pc' = "returned"
    /\ Sharpe' = v
    /\ UNCHANGED s_error

\* portfolio_tools.py lines 81-119
PortfolioSharpe ==
    /\ s_pc = "call"
    /\ IF ~weights.array \/ ~expected_returns.array \/ ~covariance_matrix.array
       THEN SharpeRaise("TYPE_ERROR")
       ELSE IF \/ Len(weights.shape) # 1
               \/ Len(expected_returns.shape) # 1
               \/ Len(covariance_matrix.shape) # 2
       THEN SharpeRaise("SHAPE_ERROR")
       ELSE LET n_assets == expected_returns.shape[1] IN
              IF weights.shape[1] # n_assets THEN SharpeRaise("SHAPE_ERROR")
              ELSE IF ~ShapeIsSquare(covariance_matrix.shape, n_assets)
                   THEN SharpeRaise("SHAPE_ERROR")
              ELSE IF zerocost = "True"
                   THEN SharpeReturn("port_ret / port_vol")
              ELSE IF rf = "None"
                   THEN SharpeRaise("TypeError: unsupported operand type(s) for -")
              ELSE SharpeReturn("(port_ret - rf) / port_vol")
    /\ UNCHANGED <<weights, expected_returns, covariance_matrix, rf, zerocost>>
    /\ UNCHANGED <<crspVars, normVars, stratVars, bsVars>>

NextSharpe == PortfolioSharpe

InitSharpe == SharpeInit /\ CrspIdle /\ NormIdle /\ StratIdle /\ BsIdle

SpecSharpe == InitSharpe /\ [][NextSharpe]_vars

SomeNotArray ==
    \E a \in {weights, expected_returns, covariance_matrix} : ~a.array

ShapeMismatch ==
    \/ Len(weights.shape) # 1
    \/ Len(expected_returns.shape) # 1
    \/ Len(covariance_matrix.shape) # 2
    \/ weights.shape # expected_returns.shape
    \/ covariance_matrix.shape # expected_returns.shape \o expected_returns.shape

\* C15: a finished call of portfolio_sharpe has raised TYPE_ERROR exactly
\* when one of the three arguments is not an array, whatever the shapes of
\* the others; it has raised SHAPE_ERROR exactly when all three are arrays
\* and a vector is not of rank 1, the matrix is not of rank 2, the vectors
\* differ in length or the matrix is not n by n; and it has returned a
\* ratio only when all three are arrays of matching shapes.
C15_TypeThenShapeChecks ==
    s_pc \in {"returned", "raised"} =>
      /\ (s_error = "TYPE_ERROR") <=> SomeNotArray
      /\ (s_error = "SHAPE_ERROR") <=> (~SomeNotArray /\ ShapeMismatch)
      /\ Sharpe # "none" => (~SomeNotArray /\ ~ShapeMismatch /\ s_pc = "returned")
      /\ s_pc = "returned" => Sharpe # "none"

\* weights was a list and the covariance matrix an array of rank 1: the
\* call failed with TYPE_ERROR
C15_Witness ==
    /\ s_pc = "raised"
    /\ s_error = "TYPE_ERROR"
    /\ ~weights.array
    /\ covariance_matrix.array
    /\ Len(covariance_matrix.shape) = 1

====
